---- MODULE Spec2Model ----
(***************************************************************************)
(* Model of mmns (src/mmns.py).                                            *)
(*                                                                         *)
(* Spec: one Node, its mount helper ("anchor") process and its list of     *)
(* mount overrides, under the operations mount_override, cmd, cmd_stream   *)
(* and Node.cleanup, together with the environment: helper processes that  *)
(* can be killed from outside, the handshake file                          *)
(* /run/mmns/helper_<name>.pid and the mount table of each helper's        *)
(* private mount namespace.  Every method call is one step.  A pid is      *)
(* never given to a second process, so the probe os.kill(pid, 0) fails     *)
(* exactly when the helper with that pid is gone.                          *)
(*                                                                         *)
(* StreamSpec, StreamFairSpec: one cmd_stream call after its Popen, step   *)
(* by step, with the spawned command as a process of its own.              *)
(*                                                                         *)
(* HelperSpec: one _start_mount_helper call, step by step, with the        *)
(* helper's script as a process of its own.                                *)
(*                                                                         *)
(* TeardownSpec, LinkSpec: scripts over several Nodes: Link,               *)
(* connect_node_to_bridge, CLI's registration in _nodes and the            *)
(* module-level cleanup().                                                 *)
(***************************************************************************)
EXTENDS Integers, Sequences, FiniteSets, TLC

\* ------------------------------------------------------------------ bounds
\* Helper processes spawned in one behaviour get the pids 1..MaxPid.
MaxPid == 2
\* Longest mount table of one helper's mount namespace.
MaxMounts == 2
\* Longest timeout, in clock ticks, passed to one cmd_stream call.
MaxTimeout == 2
\* Longest interfaces list of one Node.
MaxIfaces == 2

\* ------------------------------------------------------------- value space
\* self.mount_ns_pid = None; real pids are positive, so 0 is free for None.
None == 0
\* The handshake file does not exist.
NoFile == 0
Pids == 1..MaxPid

\* A path is a root ("/" for an absolute path, "" for a relative one) and a
\* name.  NoPath fills the path fields of records that have none.
Path(root, name) == [root |-> root, name |-> name]
NoPath == Path("", "")

\* target_path arguments: two absolute ones and a relative one.
AbsTargets == {Path("/", "t1"), Path("/", "t2")}
RelTarget == Path("", "t1")
\* src_path arguments: an absolute file, an absolute directory, a relative
\* path that exists, and an absolute path that does not exist.
AbsSources == {Path("/", "f1"), Path("/", "d1")}
RelSource == Path("", "f1")
GoneSource == Path("/", "gone")
\* The mount_override(target_path, src_path) calls made: every valid pair,
\* and pairs that fail each of the argument checks.
Calls == (AbsTargets \X AbsSources)
         \cup {<<RelTarget, Path("/", "f1")>>, <<RelTarget, GoneSource>>,
               <<Path("/", "t1"), RelSource>>, <<Path("/", "t1"), GoneSource>>}

\* The caller's filesystem: regular files and directories that exist.
FsFiles == {Path("/", "f1"), Path("", "f1")}
FsDirs == {Path("/", "d1")}

\* os.path.isabs, os.path.exists, os.path.isfile.
isabs(p) == p.root = "/"
exists(p) == p \in (FsFiles \cup FsDirs)
isfile(p) == p \in FsFiles

VARIABLES
  mount_ns_pid,     \* Node.mount_ns_pid: None or the pid of the anchor
  mount_overrides,  \* Node.mount_overrides: sequence of <<target, src>>
  alive,            \* pids of the helper processes that are running
  mounts,           \* mounts[p]: bind mounts in p's mount namespace, in
                    \* mount order, each <<target, src>>
  pidfile,          \* content of /run/mmns/helper_<name>.pid, or NoFile
  nextPid,          \* pid the next spawned helper gets
  last,             \* the operation just performed: its arguments, its
                    \* outcome and the commands it issued
  stream,           \* one cmd_stream call seen step by step: the spawned
                    \* command and the caller's position in lines 263-295
  nodes,            \* the Node objects of a topology script, by name
  _nodes,           \* names of the Nodes in the module's registry _nodes
  root_links,       \* veth ends <host>-eth<N> left in the root namespace
  bridge,           \* whether the bridge br-nat exists
  start             \* one _start_mount_helper call seen step by step: the
                    \* caller's position in lines 147-167 and the position
                    \* of every spawned helper in its script

vars == <<mount_ns_pid, mount_overrides, alive, mounts, pidfile, nextPid,
          last, stream, nodes, _nodes, root_links, bridge, start>>
\* What a topology script works on, which the operations on the single Node
\* leave alone.
topoVars == <<nodes, _nodes, root_links, bridge>>
\* The Nodes and their helpers, which the steps of a running command leave
\* alone.
nodeVars == <<mount_ns_pid, mount_overrides, alive, mounts, pidfile, nextPid,
              last, nodes, _nodes, root_links, bridge, start>>

\* ------------------------------------------------- state threaded by calls
\* One external command or signal issued by an operation.
Cmd(verb, pid, target, source) ==
  [verb |-> verb, pid |-> pid, target |-> target, source |-> source]

\* The Node and its environment as one call sees and changes them, plus the
\* log of what the call did.
State ==
  [pid |-> mount_ns_pid, ledger |-> mount_overrides, alive |-> alive,
   mounts |-> mounts, pidfile |-> pidfile, nextPid |-> nextPid,
   issued |-> <<>>, starts |-> <<>>, detected |-> FALSE,
   unmount |-> "none", bind |-> "none", died |-> FALSE]

\* How a call ends: the state it leaves, the exception it raises ("none" if
\* it returns) and the value it returns.
Out(st, exc, ret) == [st |-> st, exc |-> exc, ret |-> ret]

\* Sequencing: continue with f from every outcome that did not raise.
Then(R, f(_)) == UNION {IF r.exc = "none" THEN f(r.st) ELSE {r} : r \in R}

Issue(st, c) == [st EXCEPT !.issued = Append(@, c)]

\* The environment kills the anchor while a call is under way, after the
\* call's probe os.kill(pid, 0) found it alive.
\* A death in mid-call that also wipes the Node's override list.
Die_and_forget(st) ==
  [st EXCEPT !.alive = @ \ {st.pid}, !.mounts[st.pid] = <<>>, !.died = TRUE,
             !.ledger = <<>>]

Die(st) ==
  [st EXCEPT !.alive = @ \ {st.pid}, !.mounts[st.pid] = <<>>, !.died = TRUE]

\* ------------------------------------------------------- the override list
\* Index of the first entry of the list whose target is t, 0 if there is
\* none: the scan `for existing_target, existing_src in self.mount_overrides`.
\* The scan that never matches.
find_nothing(ledger, t) == 0

find_existing(ledger, t) ==
  IF \E i \in 1..Len(ledger) : ledger[i][1] = t
  THEN CHOOSE i \in 1..Len(ledger) :
         /\ ledger[i][1] = t
         /\ \A j \in 1..(i - 1) : ledger[j][1] # t
  ELSE 0

\* list.remove(e): the list without the first element equal to e.
\* A remove that leaves the list as it is.
remove_nothing(ledger, e) == ledger

remove(ledger, e) ==
  IF \E i \in 1..Len(ledger) : ledger[i] = e
  THEN LET i == CHOOSE k \in 1..Len(ledger) :
                  /\ ledger[k] = e
                  /\ \A j \in 1..(k - 1) : ledger[j] # e
       IN SubSeq(ledger, 1, i - 1) \o SubSeq(ledger, i + 1, Len(ledger))
  ELSE ledger

\* ------------------------------------------------- mount namespace tables
\* Position of the topmost mount on target t in table m, 0 if t is not a
\* mount point.
TopMount(m, t) ==
  IF \E i \in 1..Len(m) : m[i][1] = t
  THEN CHOOSE i \in 1..Len(m) :
         /\ m[i][1] = t
         /\ \A j \in (i + 1)..Len(m) : m[j][1] # t
  ELSE 0

\* umount t: the topmost mount on t goes away.
Umount(m, t) ==
  LET i == TopMount(m, t)
  IN IF i = 0 THEN m ELSE SubSeq(m, 1, i - 1) \o SubSeq(m, i + 1, Len(m))

\* ------------------------------------------------------- mount_override
\* The argument checks at the head of mount_override: the exception raised,
\* "none" if the arguments pass.
\* The checks without the one on target_path.
precondition_without_target_check(target_path, src_path) ==
  IF ~exists(src_path) THEN "FileNotFoundError"
  ELSE IF ~isabs(src_path) THEN "ValueError"
  ELSE "none"

\* The checks without the isabs check on src_path.
precondition_without_src_check(target_path, src_path) ==
  IF ~exists(src_path) THEN "FileNotFoundError"
  ELSE IF ~isabs(target_path) THEN "ValueError"
  ELSE "none"

precondition(target_path, src_path) ==
  IF ~exists(src_path) THEN "FileNotFoundError"
  ELSE IF ~isabs(target_path) THEN "ValueError"
  ELSE IF ~isabs(src_path) THEN "ValueError"
  ELSE "none"

\* _start_mount_helper: spawn a helper with a fresh pid p, poll up to 30
\* times for the pid file, read it into mount_ns_pid and unlink it.  The
\* outcomes, by what the spawned helper does and what the file held:
\*   ok       the caller reads the pid the spawned helper wrote
\*   partial  the caller sees the file after the helper created it and
\*            before it wrote its pid: int('') raises ValueError
\*   exit     no file, the helper has exited: RuntimeError
\*   timeout  no file after 30 polls: the helper is terminated, RuntimeError;
\*            the helper may have written the file after the last poll
\*   stale    the file was there before the spawn and the caller reads the
\*            old pid at its first poll; the spawned helper, if it lives,
\*            writes its pid before or after the unlink
_start_mount_helper(st) ==
  IF st.nextPid > MaxPid THEN {}
  ELSE
    LET p == st.nextPid
        s0 == [Issue(st, Cmd("Popen", p, NoPath, NoPath))
                 EXCEPT !.nextPid = p + 1]
        end(kind, newpid, live, file) ==
          [s0 EXCEPT !.pid = newpid,
                     !.alive = IF live THEN @ \cup {p} ELSE @,
                     !.pidfile = file,
                     !.starts = Append(@, kind)]
    IN {Out(end("ok", p, TRUE, NoFile), "none", None)}
       \cup {Out(end("partial", st.pid, TRUE, p), "ValueError", None)}
       \cup IF st.pidfile = NoFile
            THEN {Out(end("exit", st.pid, FALSE, NoFile),
                      "RuntimeError", None)}
                 \cup {Out(end("timeout", st.pid, FALSE, f),
                           "RuntimeError", None) : f \in {NoFile, p}}
            ELSE {Out(end("stale", st.pidfile, FALSE, NoFile), "none", None)}
                 \cup {Out(end("stale", st.pidfile, TRUE, f), "none", None) :
                         f \in {NoFile, p}}

\* The except branch of the liveness probe in mount_override.
\* The except branch without `self.mount_overrides = []`.
restart_keeping_overrides(st) ==
  [st EXCEPT !.pid = None, !.detected = TRUE]

restart(st) ==
  [st EXCEPT !.pid = None, !.ledger = <<>>, !.detected = TRUE]

\* _unmount_in_helper: umount target_path through nsenter into the anchor.
\* The return code is not looked at; only the 10 s timeout raises, and the
\* command it kills has unmounted nothing.
_unmount_in_helper(st, target_path) ==
  LET s0 == Issue(st, Cmd("umount", st.pid, target_path, NoPath))
      m == IF st.pid \in st.alive THEN st.mounts[st.pid] ELSE <<>>
      done == [s0 EXCEPT !.mounts[st.pid] = Umount(m, target_path)]
  IN IF st.pid \notin st.alive \/ TopMount(m, target_path) = 0
     THEN {Out([s0 EXCEPT !.unmount = "fail"], "none", None)}
     ELSE {Out([done EXCEPT !.unmount = "ok"], "none", None),
           Out([s0 EXCEPT !.unmount = "fail"], "none", None),
           Out([s0 EXCEPT !.unmount = "timeout"], "TimeoutExpired", None)}

\* _add_mount_in_helper: prepare the target (a file for a file source, a
\* directory otherwise) and mount --bind through nsenter into the anchor.
\* A non-zero return code raises RuntimeError, the 10 s timeout raises
\* TimeoutExpired; in both cases nothing was mounted.
_add_mount_in_helper(st, target_path, src_path) ==
  LET verb == IF isfile(src_path) THEN "touch_bind" ELSE "mkdir_bind"
      s0 == Issue(st, Cmd(verb, st.pid, target_path, src_path))
  IN IF st.pid \notin st.alive
     THEN {Out([s0 EXCEPT !.bind = "fail"], "RuntimeError", None)}
     ELSE IF Len(st.mounts[st.pid]) >= MaxMounts THEN {}
     ELSE
       LET done == [s0 EXCEPT !.mounts[st.pid] =
                                 Append(@, <<target_path, src_path>>)]
       IN {Out([done EXCEPT !.bind = "ok"], "none", None),
           Out([s0 EXCEPT !.bind = "fail"], "RuntimeError", None),
           Out([s0 EXCEPT !.bind = "timeout"], "TimeoutExpired", None)}

\* The duplicate-target loop of mount_override.
unmount_existing(st, target_path) ==
  LET i == find_existing(st.ledger, target_path)
  IN IF i = 0 THEN {Out(st, "none", None)}
     ELSE Then(_unmount_in_helper(st, target_path),
               LAMBDA u : {Out([u EXCEPT !.ledger = remove(@, st.ledger[i])],
                               "none", None)})

\* Node.mount_override(target_path, src_path).
mount_override(st, target_path, src_path) ==
  IF precondition(target_path, src_path) # "none"
  THEN {Out(st, precondition(target_path, src_path), None)}
  ELSE
    LET first == IF st.pid = None THEN _start_mount_helper(st)
                 ELSE {Out(st, "none", None)}
        probe(a) == IF a.pid \in a.alive THEN {Out(a, "none", None)}
                    ELSE _start_mount_helper(restart(a))
        add(c) == Then(_add_mount_in_helper(c, target_path, src_path),
                       LAMBDA d :
                         {Out([d EXCEPT !.ledger =
                                 Append(@, <<target_path, src_path>>)],
                              "none", d.pid)})
        dup(b) == Then(unmount_existing(b, target_path), add)
    IN Then(Then(first, probe), dup)

\* ------------------------------------------------------------ cmd, cleanup
\* Node.cmd(command, timeout): the capturing mode.  timeout says whether the
\* caller passed one; a command that overruns it raises TimeoutExpired.
cmd(st, timeout) ==
  LET \* subprocess.run kills its child when the timeout expires
      run(s0) == {Out(s0, "none", None)}
                 \cup IF timeout
                      THEN {Out(Issue(s0, Cmd("kill_child", None, NoPath,
                                              NoPath)),
                                "TimeoutExpired", None)}
                      ELSE {}
      fallback(a) == run(Issue(a, Cmd("netns_exec", None, NoPath, NoPath)))
  IN IF st.pid # None
     THEN LET a == IF st.pid \in st.alive THEN st
                   ELSE [st EXCEPT !.pid = None, !.detected = TRUE]
          IN \* f"ip netns identify {int(self.mount_ns_pid)}"
             IF a.pid = None THEN {Out(a, "TypeError", None)}
             ELSE LET b == Issue(a, Cmd("identify", a.pid, NoPath, NoPath))
                      c == Issue(b, Cmd("nsenter", b.pid, NoPath, NoPath))
                  IN IF b.pid # None
                     THEN \* nsenter exits at once when its target is gone;
                          \* its message is the text returned
                          run(c) \cup {Out(Die(c), "none", None)}
                     ELSE fallback(b)
     ELSE fallback(st)

\* os.killpg(os.getpgid(proc.pid), sig): the signal goes to the process
\* group of the spawned command, which Popen made a session of its own
\* (preexec_fn=os.setsid); a pid of None in the log stands for that group.
\* The signal sent to the anchor instead.
killpg_anchor(st, sig) ==
  [Issue(st, Cmd(sig, st.pid, NoPath, NoPath))
     EXCEPT !.alive = @ \ {st.pid}]

killpg(st, sig) == Issue(st, Cmd(sig, None, NoPath, NoPath))

\* Node.cmd_stream(command, timeout): the streaming mode.  The command runs
\* in its own process group; ret is the status returned.
cmd_stream(st, timeout) ==
  LET a == IF st.pid # None /\ st.pid \notin st.alive
           THEN [st EXCEPT !.pid = None, !.detected = TRUE]
           ELSE st
      b == IF a.pid # None
           THEN Issue(a, Cmd("nsenter", a.pid, NoPath, NoPath))
           ELSE Issue(a, Cmd("netns_exec", None, NoPath, NoPath))
      term == "killpg_SIGTERM"
      int == "killpg_SIGINT"
  IN {Out(b, "none", rc) : rc \in {0, 1}}
     \cup (IF timeout THEN {Out(killpg(b, term), "none", -1)} ELSE {})
     \cup {Out(killpg(b, int), "none", -2),
           Out(killpg(killpg(b, int), term), "none", -2)}
     \* nsenter exits with status 1 at once when its target is gone
     \cup (IF a.pid # None THEN {Out(Die(b), "none", 1)} ELSE {})

\* Node.cleanup(): SIGTERM to the helper, if one is recorded.
\* A cleanup that leaves the Node alone when the recorded helper is gone.
Node_cleanup_if_alive(st) ==
  IF st.pid # None /\ st.pid \in st.alive
  THEN {Out([Issue(st, Cmd("SIGTERM", st.pid, NoPath, NoPath))
               EXCEPT !.alive = @ \ {st.pid},
                      !.mounts[st.pid] = <<>>,
                      !.pid = None],
            "none", None)}
  ELSE {Out(st, "none", None)}

Node_cleanup(st) ==
  IF st.pid # None
  THEN {Out([Issue(st, Cmd("SIGTERM", st.pid, NoPath, NoPath))
               EXCEPT !.alive = @ \ {st.pid},
                      !.mounts[st.pid] = <<>>,
                      !.pid = None],
            "none", None)}
  ELSE {Out(st, "none", None)}

\* ----------------------------------------------------------------- actions
\* No cmd_stream call has been made.
StreamIdle ==
  [pc |-> "idle", timeout |-> None, left |-> 0, proc |-> "none",
   status |-> 0, stdout |-> FALSE, sent |-> <<>>, ret |-> 0, path |-> "none"]

\* The handshake file exists and is empty: the helper's redirection
\* `> pid_file` has created it and `echo $$` has not written yet.
Empty == -1
\* No _start_mount_helper call has been made.
StartIdle ==
  [pc |-> "idle", polls |-> 0, proc |-> None, result |-> "none",
   script |-> [p \in Pids |-> "none"]]

\* Names of the Nodes a topology script makes.
Names == {"h1", "h2"}
\* The interface name f"{name}-eth{k}", and f"{iface}-br" for the end of a
\* veth pair that stays on the bridge.
Iface(name, k) == [host |-> name, eth |-> k, suffix |-> ""]
BridgeEnd(iface) == [iface EXCEPT !.suffix = "-br"]
\* A name for which no Node has been made yet.
NoNode ==
  [made |-> FALSE, interfaces |-> <<>>, mount_ns_pid |-> None,
   mount_overrides |-> <<>>, pidfile |-> NoFile]

\* Node.__init__ has run; no helper, no handshake file.
NoOp ==
  [op |-> "init", target |-> NoPath, source |-> NoPath,
   result |-> "none", ret |-> None, issued |-> <<>>, starts |-> <<>>,
   detected |-> FALSE, unmount |-> "none", bind |-> "none",
   died |-> FALSE, prePid |-> None, preAlive |-> FALSE, preLedger |-> <<>>]

Init ==
  /\ mount_ns_pid = None
  /\ mount_overrides = <<>>
  /\ alive = {}
  /\ mounts = [p \in Pids |-> <<>>]
  /\ pidfile = NoFile
  /\ nextPid = 1
  /\ last = NoOp
  /\ stream = StreamIdle
  /\ nodes = [h \in Names |-> NoNode]
  /\ _nodes = {}
  /\ root_links = {}
  /\ bridge = FALSE
  /\ start = StartIdle

\* One call op(target, source) ends as r: the Node and its environment take
\* r's state, last records the call and the Node's fields before it.
Commit(r, op, t, s) ==
  /\ mount_ns_pid' = r.st.pid
  /\ mount_overrides' = r.st.ledger
  /\ alive' = r.st.alive
  /\ mounts' = r.st.mounts
  /\ pidfile' = r.st.pidfile
  /\ nextPid' = r.st.nextPid
  /\ last' = [op |-> op, target |-> t, source |-> s,
              result |-> IF r.exc = "none" THEN "ok" ELSE r.exc,
              ret |-> r.ret, issued |-> r.st.issued, starts |-> r.st.starts,
              detected |-> r.st.detected, unmount |-> r.st.unmount,
              bind |-> r.st.bind, died |-> r.st.died,
              prePid |-> mount_ns_pid, preAlive |-> mount_ns_pid \in alive,
              preLedger |-> mount_overrides]
  /\ UNCHANGED <<stream, topoVars, start>>

MountOverride ==
  \E c \in Calls :
    \E r \in mount_override(State, c[1], c[2]) :
      Commit(r, "mount_override", c[1], c[2])

RunCmd ==
  \E to \in BOOLEAN :
    \E r \in cmd(State, to) : Commit(r, "cmd", NoPath, NoPath)

RunCmdStream ==
  \E to \in BOOLEAN :
    \E r \in cmd_stream(State, to) :  Commit(r, "cmd_stream", NoPath, NoPath)

NodeCleanup ==
  \E r \in Node_cleanup(State) : Commit(r, "cleanup", NoPath, NoPath)

\* The environment kills a running helper process; its mount namespace goes
\* with it.
Kill ==
  \E p \in alive :
    /\ alive' = alive \ {p}
    /\ mounts' = [mounts EXCEPT ![p] = <<>>]
    /\ last' = [NoOp EXCEPT !.op = "kill", !.ret = p,
                            !.prePid = mount_ns_pid,
                            !.preAlive = mount_ns_pid \in alive,
                            !.preLedger = mount_overrides]
    /\ UNCHANGED <<mount_ns_pid, mount_overrides, pidfile, nextPid, stream,
                   topoVars, start>>

Next == MountOverride \/ RunCmd \/ RunCmdStream \/ NodeCleanup \/ Kill

Spec == Init /\ [][Next]_vars

\* ------------------------------------------- cmd_stream, step by step
\* Lines 263-295 of cmd_stream with the spawned command as a process of its
\* own.  stream.pc is the caller's position:
\*   "reading"        the loop `for line in proc.stdout`
\*   "waiting"        proc.wait(timeout=timeout)
\*   "term_wait"      proc.wait() after the SIGTERM of the timeout handler
\*   "int_wait"       proc.wait(timeout=2) after the SIGINT of the interrupt
\*                    handler
\*   "int_term_wait"  proc.wait() after the SIGTERM of the interrupt handler
\*   "returned"       the call returned stream.ret
\*   "raised"         a KeyboardInterrupt left the call
\* stream.proc is the spawned command ("running" or "exited"), stream.status
\* its Popen.returncode once exited (the exit status, or -N when signal N
\* killed it), stream.stdout whether the write end of its output pipe is
\* still open, stream.sent the signals the caller sent to its process group,
\* stream.left the ticks left on the timer of the wait under way.

\* signal.SIGINT, signal.SIGTERM.
SIGINT == 2
SIGTERM == 15
\* Signals that other processes send to the command: SIGHUP, SIGINT, SIGKILL.
ExternalSignals == {1, 2, 9}
\* Exit statuses of a command that ends by itself.
ExitStatuses == {0, 1}
\* timeout arguments: None, or a number of clock ticks.
Timeouts == {None} \cup (1..MaxTimeout)
\* proc.wait(timeout=2) in the interrupt handler.
Grace == 2

\* subprocess.Popen(cmd, shell=True, stdout=PIPE, ..., preexec_fn=os.setsid)
\* and entry into the read loop.
StreamSpawn ==
  /\ stream.pc \in {"idle", "returned", "raised"}
  /\ \E t \in Timeouts :
       stream' = [StreamIdle EXCEPT !.pc = "reading", !.timeout = t,
                                    !.proc = "running", !.stdout = TRUE]
  /\ UNCHANGED nodeVars

\* The command closes its output and keeps running.
CmdClosesOutput ==
  /\ stream.proc = "running" /\ stream.stdout
  /\ stream' = [stream EXCEPT !.stdout = FALSE]
  /\ UNCHANGED nodeVars

\* The command exits by itself.
CmdExits ==
  /\ stream.proc = "running"
  /\ \E rc \in ExitStatuses :
       stream' = [stream EXCEPT !.proc = "exited", !.status = rc,
                                !.stdout = FALSE]
  /\ UNCHANGED nodeVars

\* Another process kills the command with a signal.
CmdKilledFromElsewhere ==
  /\ stream.proc = "running"
  /\ \E sig \in ExternalSignals :
       stream' = [stream EXCEPT !.proc = "exited", !.status = -sig,
                                !.stdout = FALSE]
  /\ UNCHANGED nodeVars

\* The command dies of the signal the caller sent last.
CmdDiesOfSentSignal ==
  /\ stream.proc = "running" /\ stream.sent # <<>>
  /\ stream' = [stream EXCEPT !.proc = "exited",
                              !.status = -stream.sent[Len(stream.sent)],
                              !.stdout = FALSE]
  /\ UNCHANGED nodeVars

\* One tick of the clock while a wait with a timeout is under way.
Tick ==
  /\ \/ stream.pc = "waiting" /\ stream.timeout # None
     \/ stream.pc = "int_wait"
  /\ stream.left > 0
  /\ stream' = [stream EXCEPT !.left = @ - 1]
  /\ UNCHANGED nodeVars

\* `for line in proc.stdout` ends at end of file; proc.wait(timeout) begins.
ReadLoopEnds ==
  /\ stream.pc = "reading" /\ ~stream.stdout
  /\ stream' = [stream EXCEPT !.pc = "waiting", !.left = stream.timeout]
  /\ UNCHANGED nodeVars

\* return_code = proc.wait(timeout=timeout); return return_code
WaitReturns ==
  /\ stream.pc = "waiting" /\ stream.proc = "exited"
  /\ stream' = [stream EXCEPT !.pc = "returned", !.ret = stream.status,
                              !.path = "normal"]
  /\ UNCHANGED nodeVars

\* except subprocess.TimeoutExpired: os.killpg(..., signal.SIGTERM)
WaitTimesOut ==
  /\ stream.pc = "waiting" /\ stream.timeout # None /\ stream.left = 0
  /\ stream.proc = "running"
  /\ stream' = [stream EXCEPT !.pc = "term_wait",
                              !.sent = Append(@, SIGTERM)]
  /\ UNCHANGED nodeVars

\* proc.wait(); return -1
TermWaitReturns ==
  /\ stream.pc = "term_wait" /\ stream.proc = "exited"
  /\ stream' = [stream EXCEPT !.pc = "returned", !.ret = -1,
                              !.path = "timeout"]
  /\ UNCHANGED nodeVars

\* except KeyboardInterrupt: os.killpg(..., signal.SIGINT), raised in the
\* read loop or in proc.wait(timeout=timeout).
\* The handler that sends SIGTERM at once.
Interrupt_terminating ==
  /\ stream.pc \in {"reading", "waiting"}
  /\ stream' = [stream EXCEPT !.pc = "int_wait", !.left = Grace,
                              !.sent = Append(@, SIGTERM)]
  /\ UNCHANGED nodeVars

Interrupt ==
  /\ stream.pc \in {"reading", "waiting"}
  /\ stream' = [stream EXCEPT !.pc = "int_wait", !.left = Grace,
                              !.sent = Append(@, SIGINT)]
  /\ UNCHANGED nodeVars

\* proc.wait(timeout=2) returns; return -2
IntWaitReturns ==
  /\ stream.pc = "int_wait" /\ stream.proc = "exited"
  /\ stream' = [stream EXCEPT !.pc = "returned", !.ret = -2,
                              !.path = "interrupt"]
  /\ UNCHANGED nodeVars

\* except subprocess.TimeoutExpired (inner): os.killpg(..., signal.SIGTERM)
IntWaitTimesOut ==
  /\ stream.pc = "int_wait" /\ stream.left = 0 /\ stream.proc = "running"
  /\ stream' = [stream EXCEPT !.pc = "int_term_wait",
                              !.sent = Append(@, SIGTERM)]
  /\ UNCHANGED nodeVars

\* proc.wait(); return -2
IntTermWaitReturns ==
  /\ stream.pc = "int_term_wait" /\ stream.proc = "exited"
  /\ stream' = [stream EXCEPT !.pc = "returned", !.ret = -2,
                              !.path = "interrupt"]
  /\ UNCHANGED nodeVars

\* A KeyboardInterrupt raised inside one of the two handlers is caught by
\* nothing in cmd_stream.
InterruptInHandler ==
  /\ stream.pc \in {"term_wait", "int_wait", "int_term_wait"}
  /\ stream' = [stream EXCEPT !.pc = "raised", !.path = "interrupt"]
  /\ UNCHANGED nodeVars

\* The caller's own steps.
StreamCaller ==
  \/ ReadLoopEnds \/ WaitReturns \/ WaitTimesOut \/ TermWaitReturns
  \/ IntWaitReturns \/ IntWaitTimesOut \/ IntTermWaitReturns

StreamNext ==
  \/ StreamSpawn \/ CmdClosesOutput \/ CmdExits \/ CmdKilledFromElsewhere
  \/ CmdDiesOfSentSignal \/ Tick \/ Interrupt \/ InterruptInHandler
  \/ ReadLoopEnds \/ WaitReturns \/ WaitTimesOut \/ TermWaitReturns
  \/ IntWaitReturns \/ IntWaitTimesOut \/ IntTermWaitReturns

StreamSpec == Init /\ [][StreamNext]_vars

\* The same with the scheduling the code runs under: the caller's thread
\* takes its next step when it can, the clock advances, and a command dies
\* of a signal sent to it.  Nothing makes the command exit or close its
\* output by itself, and nothing makes the user interrupt.
StreamFairSpec ==
  /\ StreamSpec
  /\ WF_vars(StreamCaller)
  /\ WF_vars(Tick)
  /\ WF_vars(CmdDiesOfSentSignal)

\* ------------------------------------- _start_mount_helper, step by step
\* Lines 147-167 with the helper as a process of its own.  start.pc is the
\* caller's position:
\*   "loop"        top of an iteration of `for i in range(30)`
\*   "check_proc"  `if proc.poll() is not None`, the file not being there
\*   "read"        `self.mount_ns_pid = int(f.read().strip())`
\*   "unlink"      `os.unlink(pid_file)`
\*   "done"        the call returned or raised start.result
\* start.polls counts the iterations begun, start.proc is the pid of the
\* process made by Popen, and start.script[p] is the position of helper p
\* in `echo $$ > pid_file && echo ... && exec sleep infinity`:
\*   "spawned"   running, the redirection not yet opened
\*   "created"   the redirection has created (or truncated) the file
\*   "detached"  as "created", and the caller has unlinked the file since
\*   "sleeping"  the pid is written; sleep infinity
\*   "exited"    gone
\* Here pidfile also takes the value Empty, and alive holds the helpers of
\* every position but "exited".

\* range(30)
PollLimit == 30

\* subprocess.Popen(cmd, ...) at the first start (mount_ns_pid is None) or
\* after the probe of mount_override found the helper dead.
StartHelper ==
  /\ start.pc \in {"idle", "done"}
  /\ nextPid <= MaxPid
  /\ mount_ns_pid = None \/ mount_ns_pid \notin alive
  /\ mount_ns_pid' = None
  /\ alive' = alive \cup {nextPid}
  /\ nextPid' = nextPid + 1
  /\ start' = [start EXCEPT !.pc = "loop", !.polls = 0, !.proc = nextPid,
                            !.result = "none",
                            !.script[nextPid] = "spawned"]
  /\ UNCHANGED <<mount_overrides, mounts, pidfile, last, stream, topoVars>>

\* The helper's shell opens the redirection `> pid_file`.
HelperCreatesFile ==
  \E p \in alive :
    /\ start.script[p] = "spawned"
    /\ pidfile' = Empty
    /\ start' = [start EXCEPT !.script[p] = "created"]
    /\ UNCHANGED <<mount_ns_pid, mount_overrides, alive, mounts, nextPid,
                   last, stream, topoVars>>

\* `echo $$` writes the pid, into the file if it is still linked.
HelperWritesPid ==
  \E p \in alive :
    /\ start.script[p] \in {"created", "detached"}
    /\ pidfile' = IF start.script[p] = "created" THEN p ELSE pidfile
    /\ start' = [start EXCEPT !.script[p] = "sleeping"]
    /\ UNCHANGED <<mount_ns_pid, mount_overrides, alive, mounts, nextPid,
                   last, stream, topoVars>>

\* A helper exits (ip netns exec or unshare fails) or is killed.
HelperExits ==
  \E p \in alive :
    /\ start.script[p] # "none"
    /\ alive' = alive \ {p}
    /\ start' = [start EXCEPT !.script[p] = "exited"]
    /\ UNCHANGED <<mount_ns_pid, mount_overrides, mounts, pidfile, nextPid,
                   last, stream, topoVars>>

\* time.sleep(0.1); if os.path.exists(pid_file): break
PollFile ==
  /\ start.pc = "loop" /\ start.polls < PollLimit
  /\ start' = [start EXCEPT !.polls = @ + 1,
                            !.pc = IF pidfile # NoFile THEN "read"
                                   ELSE "check_proc"]
  /\ UNCHANGED <<mount_ns_pid, mount_overrides, alive, mounts, pidfile,
                 nextPid, last, stream, topoVars>>

\* if proc.poll() is not None: raise RuntimeError("mount helper failed")
CheckProc ==
  /\ start.pc = "check_proc"
  /\ start' = IF start.proc \in alive
              THEN [start EXCEPT !.pc = "loop"]
              ELSE [start EXCEPT !.pc = "done", !.result = "RuntimeError"]
  /\ UNCHANGED <<mount_ns_pid, mount_overrides, alive, mounts, pidfile,
                 nextPid, last, stream, topoVars>>

\* else: proc.terminate(); raise RuntimeError("mount helper timeout")
PollsExhausted ==
  /\ start.pc = "loop" /\ start.polls = PollLimit
  /\ alive' = alive \ {start.proc}
  /\ start' = [start EXCEPT !.pc = "done", !.result = "RuntimeError",
                            !.script[start.proc] = "exited"]
  /\ UNCHANGED <<mount_ns_pid, mount_overrides, mounts, pidfile, nextPid,
                 last, stream, topoVars>>

\* self.mount_ns_pid = int(f.read().strip()); int('') raises ValueError.
ReadPidFile ==
  /\ start.pc = "read"
  /\ IF pidfile = Empty
     THEN /\ start' = [start EXCEPT !.pc = "done", !.result = "ValueError"]
          /\ UNCHANGED mount_ns_pid
     ELSE /\ start' = [start EXCEPT !.pc = "unlink"]
          /\ mount_ns_pid' = pidfile
  /\ UNCHANGED <<mount_overrides, alive, mounts, pidfile, nextPid, last,
                 stream, topoVars>>

\* os.unlink(pid_file); a helper that has the file open keeps writing to
\* the unlinked file.
UnlinkPidFile ==
  /\ start.pc = "unlink"
  /\ pidfile' = NoFile
  /\ start' = [start EXCEPT
                 !.pc = "done", !.result = "ok",
                 !.script = [p \in Pids |->
                               IF start.script[p] = "created" THEN "detached"
                               ELSE start.script[p]]]
  /\ UNCHANGED <<mount_ns_pid, mount_overrides, alive, mounts, nextPid, last,
                 stream, topoVars>>

HelperNext ==
  \/ StartHelper \/ HelperCreatesFile \/ HelperWritesPid \/ HelperExits
  \/ PollFile \/ CheckProc \/ PollsExhausted \/ ReadPidFile
  \/ UnlinkPidFile

HelperSpec == Init /\ [][HelperNext]_vars

\* ------------------------------------------- topology scripts, teardown
\* Several Nodes, the veth pairs made by Link and connect_node_to_bridge,
\* the registry _nodes that CLI fills, and the module-level cleanup().  An
\* element of root_links is one line of `ip -o link show` in the root
\* namespace: the interface's name and the name of its veth peer.  Every
\* _run(...) may fail (CalledProcessError), which ends the operation that
\* made it.  Operations on a Node made before a cleanup() are still taken
\* after it, although its namespace is gone and they can only fail.

\* Default interface name f"{node.name}-eth{len(node.interfaces)}".
\* The name numbered by the field if_count, which nothing ever increments.
default_ifname_by_if_count(ns, h) == Iface(h, 0)

default_ifname(ns, h) == Iface(h, Len(ns[h].interfaces))

\* Node.add_iface(ifname): the append; the `link set up` after it may fail.
add_iface(ns, h, ifname) == [ns EXCEPT ![h].interfaces = Append(@, ifname)]

\* One line of `ip -o link show`.
LinkLine(name, peer) == [name |-> name, peer |-> peer]

\* How a Link or connect_node_to_bridge call ends.
LOut(ns, root, exc) == [nodes |-> ns, root |-> root, exc |-> exc]

\* Link(node1, node2) with default names.  `ip link add` fails when the two
\* names are equal or one of them is taken in the root namespace.
Link(ns, root, a, b) ==
  LET if1 == default_ifname(ns, a)
      if2 == default_ifname(ns, b)
      taken == {e.name : e \in root}
      added == root \cup {LinkLine(if1, if2), LinkLine(if2, if1)}
      moved1 == root \cup {LinkLine(if2, if1)}
      n1 == add_iface(ns, a, if1)
      n2 == add_iface(n1, b, if2)
      fail == "CalledProcessError"
  IN IF if1 = if2 \/ if1 \in taken \/ if2 \in taken
     THEN {LOut(ns, root, fail)}
     ELSE {LOut(ns, root, fail),      \* ip link add
           LOut(ns, added, fail),     \* ip link set if1 netns
           LOut(ns, moved1, fail),    \* ip link set if2 netns
           LOut(n1, root, fail),      \* node1.add_iface: link set up
           LOut(n2, root, fail),      \* node2.add_iface: link set up
           LOut(n2, root, "none")}

\* connect_node_to_bridge(node).  `ip link set <iface>-br master br-nat`
\* fails when the bridge does not exist.
connect_node_to_bridge(ns, root, br, h) ==
  LET iface == default_ifname(ns, h)
      taken == {e.name : e \in root}
      added == root \cup {LinkLine(iface, BridgeEnd(iface)),
                          LinkLine(BridgeEnd(iface), iface)}
      moved == root \cup {LinkLine(BridgeEnd(iface), iface)}
      n1 == add_iface(ns, h, iface)
      fail == "CalledProcessError"
  IN IF iface \in taken \/ BridgeEnd(iface) \in taken
     THEN {LOut(ns, root, fail)}
     ELSE {LOut(ns, root, fail),      \* ip link add
           LOut(ns, added, fail),     \* ip link set iface netns
           LOut(ns, moved, fail)}     \* ip link set iface-br master / up
          \cup IF br
               THEN {LOut(n1, moved, fail),  \* link set up, addr, route
                     LOut(n1, moved, "none")}
               ELSE {}

\* The operation of a topology script last performed; for cleanup() the
\* commands and signals it issued and the Nodes and the running helpers
\* before it.
TopoLast(op, issued, before, aliveBefore) ==
  [op |-> op, issued |-> issued, nodesBefore |-> before,
   aliveBefore |-> aliveBefore]
NoNodes == [h \in Names |-> NoNode]

\* The Nodes, their helpers and the root namespace as cleanup() sees and
\* changes them, plus the log of what it issued.
TopoState ==
  [nodes |-> nodes, alive |-> alive, mounts |-> mounts, root |-> root_links,
   bridge |-> bridge, issued |-> <<>>]

\* Node h as a call on it sees it.
NodeState(ts, h) ==
  [pid |-> ts.nodes[h].mount_ns_pid, ledger |-> ts.nodes[h].mount_overrides,
   alive |-> ts.alive, mounts |-> ts.mounts, pidfile |-> ts.nodes[h].pidfile,
   nextPid |-> nextPid, issued |-> ts.issued, starts |-> <<>>,
   detected |-> FALSE, unmount |-> "none", bind |-> "none", died |-> FALSE]

\* try: n.cleanup() except Exception: pass
cleanup_node(ts, h) ==
  {[ts EXCEPT !.nodes[h].mount_ns_pid = r.st.pid, !.alive = r.st.alive,
              !.mounts = r.st.mounts, !.issued = r.st.issued]
     : r \in Node_cleanup(NodeState(ts, h))}

\* for n in list(_nodes.values()): the registered Nodes, one after another.
RECURSIVE cleanup_nodes(_, _)
cleanup_nodes(T, hs) ==
  IF hs = <<>> THEN T
  ELSE cleanup_nodes(UNION {cleanup_node(ts, Head(hs)) : ts \in T}, Tail(hs))

\* list(_nodes.values()).
Registered(reg) == SelectSeq(<<"h1", "h2">>, LAMBDA h : h \in reg)

\* `ip -all netns delete`: the interfaces inside the namespaces go, and with
\* them their veth peers in the root namespace.
netns_delete(ts) ==
  [Issue(ts, Cmd("netns_delete_all", None, NoPath, NoPath))
     EXCEPT !.root = {e \in @ : \E f \in @ : f.name = e.peer}]

\* The sweep over the lines of `ip -o link show`.  The listing always has
\* the line of lo, and for the first line `name.startwith("veth")` raises
\* AttributeError (str has startswith, no startwith), which the except at
\* the end of the sweep swallows: no `ip link delete` is ever issued.
sweep(ts) == Issue(ts, Cmd("link_show", None, NoPath, NoPath))

\* if bridge_exists("br-nat"): delete_bridge("br-nat")
remove_bridge(ts) ==
  LET a == Issue(ts, Cmd("bridge_exists", None, NoPath, NoPath))
  IN IF a.bridge
     THEN [Issue(a, Cmd("bridge_delete", None, NoPath, NoPath))
             EXCEPT !.bridge = FALSE]
     ELSE a

\* The module-level cleanup().
cleanup(ts, reg) ==
  {remove_bridge(sweep(netns_delete(t)))
     : t \in cleanup_nodes({ts}, Registered(reg))}

\* Node(name).
MakeNode ==
  \E h \in Names :
    /\ ~nodes[h].made
    /\ nodes' = [nodes EXCEPT ![h].made = TRUE]
    /\ last' = TopoLast("Node", <<>>, NoNodes, {})
    /\ UNCHANGED <<_nodes, root_links, bridge, alive, mounts, nextPid,
                   mount_ns_pid, mount_overrides, pidfile, stream, start>>

\* node.mount_override('/t1', '/f1') on one of the Nodes.
NodeMountOverride ==
  \E h \in Names :
    /\ nodes[h].made
    /\ \E r \in mount_override(NodeState(TopoState, h),
                                Path("/", "t1"), Path("/", "f1")) :
         /\ nodes' = [nodes EXCEPT ![h].mount_ns_pid = r.st.pid,
                                   ![h].mount_overrides = r.st.ledger,
                                   ![h].pidfile = r.st.pidfile]
         /\ alive' = r.st.alive
         /\ mounts' = r.st.mounts
         /\ nextPid' = r.st.nextPid
    /\ last' = TopoLast("mount_override", <<>>, NoNodes, {})
    /\ UNCHANGED <<_nodes, root_links, bridge, mount_ns_pid, mount_overrides,
                   pidfile, stream, start>>

\* The environment kills a running helper.
KillHelper ==
  \E p \in alive :
    /\ alive' = alive \ {p}
    /\ mounts' = [mounts EXCEPT ![p] = <<>>]
    /\ last' = TopoLast("kill", <<>>, NoNodes, {})
    /\ UNCHANGED <<topoVars, nextPid, mount_ns_pid, mount_overrides, pidfile,
                   stream, start>>

\* Link(a, b).
MakeLink ==
  \E a, b \in Names :
    /\ nodes[a].made /\ nodes[b].made
    /\ Len(nodes[a].interfaces) < MaxIfaces
    /\ Len(nodes[b].interfaces) < MaxIfaces
    /\ \E r \in Link(nodes, root_links, a, b) :
         /\ nodes' = r.nodes
         /\ root_links' = r.root
    /\ last' = TopoLast("Link", <<>>, NoNodes, {})
    /\ UNCHANGED <<_nodes, bridge, alive, mounts, nextPid, mount_ns_pid,
                   mount_overrides, pidfile, stream, start>>

\* ensure_nat_bridge().
EnsureNatBridge ==
  /\ ~bridge
  /\ bridge' = TRUE
  /\ last' = TopoLast("ensure_nat_bridge", <<>>, NoNodes, {})
  /\ UNCHANGED <<nodes, _nodes, root_links, alive, mounts, nextPid,
                 mount_ns_pid, mount_overrides, pidfile, stream, start>>

\* connect_node_to_bridge(h).
ConnectNodeToBridge ==
  \E h \in Names :
    /\ nodes[h].made
    /\ Len(nodes[h].interfaces) < MaxIfaces
    /\ \E r \in connect_node_to_bridge(nodes, root_links, bridge, h) :
         /\ nodes' = r.nodes
         /\ root_links' = r.root
    /\ last' = TopoLast("connect_node_to_bridge", <<>>, NoNodes, {})
    /\ UNCHANGED <<_nodes, bridge, alive, mounts, nextPid, mount_ns_pid,
                   mount_overrides, pidfile, stream, start>>

\* CLI(nodes) with a dict of some of the Nodes: _nodes.update(nodes).
RunCLI ==
  \E S \in SUBSET {h \in Names : nodes[h].made} :
    /\ S # {}
    /\ _nodes' = _nodes \cup S
    /\ last' = TopoLast("CLI", <<>>, NoNodes, {})
    /\ UNCHANGED <<nodes, root_links, bridge, alive, mounts, nextPid,
                   mount_ns_pid, mount_overrides, pidfile, stream, start>>

\* cleanup(), called by the script or by atexit.
GlobalCleanup ==
  \E t \in cleanup(TopoState, _nodes) :
    /\ nodes' = t.nodes
    /\ alive' = t.alive
    /\ mounts' = t.mounts
    /\ root_links' = t.root
    /\ bridge' = t.bridge
    /\ last' = TopoLast("global_cleanup", t.issued, nodes, alive)
    /\ UNCHANGED <<_nodes, nextPid, mount_ns_pid, mount_overrides, pidfile,
                   stream, start>>

\* mount_override and Node.cleanup work on a Node's helper and override
\* list, Link and connect_node_to_bridge on its interfaces list and on the
\* root namespace; neither reads what the other writes.  The two halves
\* are explored apart, each with cleanup().
\* Scripts that make Nodes, give them helpers, enter the CLI and clean up.
TeardownNext ==
  \/ MakeNode \/ NodeMountOverride \/ KillHelper \/ EnsureNatBridge
  \/ RunCLI \/ GlobalCleanup

TeardownSpec == Init /\ [][TeardownNext]_vars

\* Scripts that make Nodes, wire them up and clean up.
LinkNext ==
  \/ MakeNode \/ MakeLink \/ EnsureNatBridge \/ ConnectNodeToBridge
  \/ GlobalCleanup

LinkSpec == Init /\ [][LinkNext]_vars

\* ------------------------------------------------------------------ claims
IsMountOverride == last.op = "mount_override"
\* The arguments of the last mount_override pass all three argument checks.
ValidArgs == isabs(last.target) /\ isabs(last.source) /\ exists(last.source)
\* The anchor reference was set and its process dead when the last call began.
AnchorWasDead == last.prePid # None /\ ~last.preAlive
Entry == <<last.target, last.source>>
HasTarget(ledger, t) == \E i \in 1..Len(ledger) : ledger[i][1] = t
CountTarget(ledger, t) ==
  Cardinality({i \in 1..Len(ledger) : ledger[i][1] = t})
\* Positions in the last call's command log of the commands with this verb.
IssuedAt(verbs) == {i \in 1..Len(last.issued) : last.issued[i].verb \in verbs}
BindVerbs == {"touch_bind", "mkdir_bind"}

\* C1: when the anchor was killed after a successful mount_override, the next
\* capturing cmd (one that does not overrun a timeout) detects the death,
\* clears the anchor reference, runs the command network-namespace-only and
\* returns without raising.
C1_CmdFallsBackAfterAnchorDeath ==
  (last.op = "cmd" /\ AnchorWasDead /\ last.result # "TimeoutExpired")
    => /\ last.result = "ok"
       /\ last.detected
       /\ mount_ns_pid = None
       /\ last.issued = <<Cmd("netns_exec", None, NoPath, NoPath)>>

\* C2 as stated: when the anchor is dead and the ledger non-empty, the next
\* mount_override with valid arguments whose helper starts normally detects
\* the death, starts a new anchor, succeeds, returns the new anchor's pid and
\* leaves the ledger equal to [(target, source)].
C2_RestartAlwaysSucceeds ==
  (IsMountOverride /\ AnchorWasDead /\ last.preLedger # <<>> /\ ValidArgs
     /\ last.starts = <<"ok">>)
    => /\ last.detected
       /\ last.result = "ok"
       /\ IssuedAt({"Popen"}) = {1}
       /\ last.ret = last.issued[1].pid
       /\ last.ret # last.prePid
       /\ mount_ns_pid = last.ret
       /\ mount_ns_pid \in alive
       /\ mount_overrides = <<Entry>>

\* C2 amended: the same, provided the prepare-and-bind command run in the new
\* anchor's namespace succeeds.
C2_RestartSucceedsWhenBindDoes ==
  (IsMountOverride /\ AnchorWasDead /\ last.preLedger # <<>> /\ ValidArgs
     /\ last.starts = <<"ok">> /\ last.bind = "ok")
    => /\ last.detected
       /\ last.result = "ok"
       /\ IssuedAt({"Popen"}) = {1}
       /\ last.ret = last.issued[1].pid
       /\ last.ret # last.prePid
       /\ mount_ns_pid = last.ret
       /\ mount_ns_pid \in alive
       /\ mount_overrides = <<Entry>>

\* A restart on a non-empty ledger that replaced it by the new entry.
C2_Witness ==
  /\ IsMountOverride /\ AnchorWasDead /\ last.preLedger # <<>>
  /\ last.starts = <<"ok">> /\ last.bind = "ok"
  /\ last.preLedger[1] # Entry
  /\ mount_overrides = <<Entry>>

\* C3: once an operation (cmd, cmd_stream, mount_override) has detected the
\* anchor's death, the ledger holds no entry from before the death: it is
\* empty, or holds only the entry the detecting mount_override itself added.
C3_NoOldEntriesAfterDetection ==
  last.detected
    => \/ mount_overrides = <<>>
       \/ /\ IsMountOverride /\ last.result = "ok"
          /\ mount_overrides = <<Entry>>

\* C4: between operations, with no external kill since the last one, a
\* non-empty ledger means the anchor reference is set and its process alive,
\* and every ledger entry has its bind in that anchor's mount namespace.
C4_LedgerBackedByLiveAnchor ==
  (last.op \in {"mount_override", "cmd", "cmd_stream", "cleanup"}
     /\ ~last.died /\ mount_overrides # <<>>)
    => /\ mount_ns_pid # None
       /\ mount_ns_pid \in alive
       /\ \A i \in 1..Len(mount_overrides) :
            \E j \in 1..Len(mounts[mount_ns_pid]) :
              mounts[mount_ns_pid][j] = mount_overrides[i]

\* C5: a successful mount_override(T, S2) on a live anchor whose ledger
\* already lists T (from mount_override(T, S1)) leaves exactly one entry for
\* T, with source S2, keeps the anchor, and issues exactly one unmount of T
\* in the anchor's namespace, before the bind.
C5_RemountReplacesEntry ==
  (IsMountOverride /\ last.result = "ok" /\ last.preAlive
     /\ HasTarget(last.preLedger, last.target))
    => /\ CountTarget(mount_overrides, last.target) = 1
       /\ \E i \in 1..Len(mount_overrides) : mount_overrides[i] = Entry
       /\ mount_ns_pid = last.prePid
       /\ Cardinality(IssuedAt({"umount"})) = 1
       /\ \A i \in IssuedAt({"umount"}) :
            /\ last.issued[i].target = last.target
            /\ last.issued[i].pid = mount_ns_pid
            /\ \A j \in IssuedAt(BindVerbs) : i < j

\* A successful remount of a listed target with a different source, next to
\* an entry for the other target.
C5_Witness ==
  /\ IsMountOverride /\ last.result = "ok" /\ last.preAlive
  /\ \E i \in 1..Len(last.preLedger) :
       /\ last.preLedger[i][1] = last.target
       /\ last.preLedger[i][2] # last.source
  /\ Len(mount_overrides) = 2

\* C6: in every reachable state the ledger has at most one entry per target.
C6_OneEntryPerTarget ==
  \A i, j \in 1..Len(mount_overrides) :
    i # j => mount_overrides[i][1] # mount_overrides[j][1]

\* A successful remount on a ledger that lists both targets.
C6_Witness ==
  /\ IsMountOverride /\ last.result = "ok"
  /\ HasTarget(last.preLedger, last.target)
  /\ Len(last.preLedger) = 2
  /\ Len(mount_overrides) = 2

\* C7 as stated: mount_override with a relative target fails with ValueError,
\* whatever the source is.
C7_RelativeTargetValueError ==
  (IsMountOverride /\ ~isabs(last.target)) => last.result = "ValueError"

\* C7 amended: mount_override with a relative target fails with ValueError
\* when the source exists and with FileNotFoundError when it does not.
C7_RelativeTargetFails ==
  (IsMountOverride /\ ~isabs(last.target))
    => last.result = IF exists(last.source) THEN "ValueError"
                     ELSE "FileNotFoundError"

\* A call with a relative target and an existing source raised ValueError.
C7_Witness ==
  /\ IsMountOverride /\ ~isabs(last.target) /\ exists(last.source)
  /\ last.result = "ValueError"

\* C8: a mount_override that fails an argument check (relative target,
\* relative source, missing source) raises, starts no helper, issues no
\* command and leaves the anchor reference and the ledger as they were.
C8_PreconditionFailureChangesNothing ==
  (IsMountOverride /\ ~ValidArgs)
    => /\ last.result \in {"ValueError", "FileNotFoundError"}
       /\ last.issued = <<>>
       /\ last.starts = <<>>
       /\ mount_ns_pid = last.prePid
       /\ mount_overrides = last.preLedger

\* A call with a relative source was refused while the anchor was dead and
\* the ledger non-empty: nothing was restarted or cleared.
C8_Witness ==
  /\ IsMountOverride /\ isabs(last.target) /\ ~isabs(last.source)
  /\ last.result = "ValueError"
  /\ AnchorWasDead /\ last.preLedger # <<>>

\* C9: a mount_override that fails in the anchor start or restart, in the
\* unmount of a prior entry or in the bind raises and leaves the ledger
\* identical to what it was before the call.
C9_FailureLeavesLedger ==
  (IsMountOverride /\ ValidArgs /\ last.result # "ok")
    => mount_overrides = last.preLedger

\* C10: when the unmount issued for an already-listed target fails,
\* mount_override fails (RuntimeError), issues no bind and leaves the ledger
\* unchanged.
C10_UnmountFailureAborts ==
  (IsMountOverride /\ last.unmount = "fail")
    => /\ last.result = "RuntimeError"
       /\ IssuedAt(BindVerbs) = {}
       /\ mount_overrides = last.preLedger

\* C11: every cmd and cmd_stream call takes the path its liveness probe
\* selects: one combined mount+network entry (nsenter) targeting the anchor
\* pid when the anchor was alive at the probe, one network-namespace-only
\* entry (ip netns exec) when the anchor was absent or dead; and no command
\* naming the anchor pid is issued for an absent or dead anchor.
C11_PathMatchesProbe ==
  (last.op \in {"cmd", "cmd_stream"})
    => /\ last.preAlive
            => /\ Cardinality(IssuedAt({"nsenter"})) = 1
               /\ IssuedAt({"netns_exec"}) = {}
       /\ ~last.preAlive
            => /\ Cardinality(IssuedAt({"netns_exec"})) = 1
               /\ IssuedAt({"nsenter"}) = {}
       /\ \A i \in IssuedAt({"nsenter", "identify"}) :
            last.preAlive /\ last.issued[i].pid = last.prePid

\* The signals and kills a call sent, as positions in its command log.
SignalsAt ==
  IssuedAt({"killpg_SIGTERM", "killpg_SIGINT", "kill_child", "SIGTERM"})
\* The last call was a capturing cmd that timed out, or a cmd_stream that
\* timed out or was interrupted.
TimedOutOrInterrupted ==
  \/ last.op = "cmd" /\ last.result = "TimeoutExpired"
  \/ last.op = "cmd_stream" /\ last.ret \in {-1, -2}

\* C14 as stated: a timeout in the capturing cmd and a timeout or interrupt
\* in cmd_stream signal only the spawned command (never the anchor), and the
\* anchor reference and the ledger are the same after the call as before.
C14_TimeoutLeavesNodeState ==
  TimedOutOrInterrupted
    => /\ SignalsAt # {}
       /\ \A i \in SignalsAt : last.issued[i].pid = None
       /\ last.preAlive => last.prePid \in alive
       /\ mount_ns_pid = last.prePid
       /\ mount_overrides = last.preLedger

\* C14 amended: such a call signals only the spawned command, leaves the
\* anchor process running and the ledger as it was; the anchor reference is
\* as before the call, except that a cmd_stream call that found the anchor
\* dead has cleared it.
C14_TimeoutLeavesAnchorAndLedger ==
  TimedOutOrInterrupted
    => /\ SignalsAt # {}
       /\ \A i \in SignalsAt : last.issued[i].pid = None
       /\ last.preAlive => last.prePid \in alive
       /\ mount_ns_pid = IF AnchorWasDead THEN None ELSE last.prePid
       /\ mount_overrides = last.preLedger

\* A cmd_stream call on a live anchor with a non-empty ledger timed out.
C14_Witness ==
  /\ last.op = "cmd_stream" /\ last.ret = -1
  /\ last.preAlive /\ last.preLedger # <<>>
  /\ last.issued[Len(last.issued)].verb = "killpg_SIGTERM"

\* C19, the failed call: a cmd_stream call during which the anchor died
\* after the probe returns a non-zero status without raising, and leaves
\* the anchor reference and the ledger as they were.
C19_RacedCall ==
  (last.op = "cmd_stream" /\ last.died)
    => /\ last.result = "ok"
       /\ last.ret # 0
       /\ ~last.detected
       /\ mount_ns_pid = last.prePid
       /\ mount_overrides = last.preLedger

\* C19, the call after it: a cmd_stream call that directly follows such a
\* call finds the anchor dead, clears the reference, issues one
\* network-namespace-only entry and no combined entry.
C19_CallAfterRace ==
  (last.op = "cmd_stream" /\ last.died /\ last'.op = "cmd_stream")
    => /\ last'.detected
       /\ mount_ns_pid' = None
       /\ Len(last'.issued) >= 1
       /\ last'.issued[1] = Cmd("netns_exec", None, NoPath, NoPath)
       /\ \A i \in 1..Len(last'.issued) : last'.issued[i].verb # "nsenter"
       /\ mount_overrides' = mount_overrides

\* C19: if the anchor dies between the liveness probe and the namespace
\* entry of a cmd_stream call, only that call fails (non-zero status), the
\* Node's state is left as it was, and the next cmd_stream call re-probes,
\* clears the anchor reference and runs network-namespace-only.
C19_RaceFailsOneCall == []C19_RacedCall /\ [][C19_CallAfterRace]_vars

\* A cmd_stream call on an anchor with a non-empty ledger lost the race.
C19_Witness ==
  /\ last.op = "cmd_stream" /\ last.died
  /\ last.ret = 1 /\ last.preLedger # <<>>

\* C12: a cmd_stream call with a timeout eventually returns (or is left by
\* an exception), even when the command never exits and never closes its
\* output by itself.
C12_TimedCallReturns ==
  (stream.pc = "reading" /\ stream.timeout # None)
    ~> (stream.pc \in {"returned", "raised"})

\* C13: cmd_stream returns -1 only on the timeout path and -2 only on the
\* interrupt path; the status of a command that ended by itself or was
\* killed by a signal from elsewhere is never -1 or -2.
C13_SentinelsOnlyForTimeoutAndInterrupt ==
  (stream.pc = "returned")
    => /\ stream.ret = -1 => stream.path = "timeout"
       /\ stream.ret = -2 => stream.path = "interrupt"

\* The last operation was the module-level cleanup().
IsGlobalCleanup == last.op = "global_cleanup"
\* The anchor reference of Node h when the last cleanup() began.
PidBefore(h) == last.nodesBefore[h].mount_ns_pid
\* The last cleanup() sent SIGTERM to p.
Terminated(p) ==
  \E i \in IssuedAt({"SIGTERM"}) : last.issued[i].pid = p

\* C15: cleanup() runs Node.cleanup on every registered Node, also after one
\* whose os.kill failed, and then issues the namespace removal, the
\* interface listing of the sweep and the bridge check (and the bridge
\* removal when the bridge exists), in this order; afterwards every
\* registered Node's anchor reference is None and every anchor a registered
\* Node referred to has been sent SIGTERM and is not running.
C15_CleanupCoversRegisteredNodes ==
  IsGlobalCleanup
    => /\ \A h \in _nodes :
            /\ nodes[h].mount_ns_pid = None
            /\ PidBefore(h) # None
                 => Terminated(PidBefore(h)) /\ PidBefore(h) \notin alive
       /\ Cardinality(IssuedAt({"SIGTERM"}))
            = Cardinality({h \in _nodes : PidBefore(h) # None})
       /\ \E k \in IssuedAt({"netns_delete_all"}) :
            /\ \A i \in 1..(k - 1) : last.issued[i].verb = "SIGTERM"
            /\ Len(last.issued) >= k + 2
            /\ last.issued[k + 1].verb = "link_show"
            /\ last.issued[k + 2].verb = "bridge_exists"

\* cleanup() with both Nodes registered, the anchor of one dead (its os.kill
\* raised inside Node.cleanup) and the anchor of the other running, and the
\* bridge present.
C15_Witness ==
  /\ IsGlobalCleanup /\ _nodes = Names
  /\ PidBefore("h1") # None /\ PidBefore("h1") \notin last.aliveBefore
  /\ PidBefore("h2") \in last.aliveBefore
  /\ IssuedAt({"bridge_delete"}) # {}

\* C16: after cleanup() the helper of every Node that was made, whether or
\* not it was passed to CLI, has been sent SIGTERM and is not running.
C16_CleanupTerminatesEveryHelper ==
  IsGlobalCleanup
    => \A h \in Names :
         (nodes[h].made /\ PidBefore(h) \in last.aliveBefore)
           => Terminated(PidBefore(h)) /\ PidBefore(h) \notin alive

\* C17: after cleanup() every interface <host>-eth<N> still in the root
\* namespace has had an `ip link delete` issued for it.
C17_SweepDeletesLeftovers ==
  IsGlobalCleanup
    => \A e \in root_links :
         e.name.suffix = ""
           => \E i \in IssuedAt({"link_delete"}) :
                last.issued[i].target = e.name

\* C18, the names: the k-th interface of a Node, counting from 0, is
\* <host>-eth<k>, and the names in one Node's list are pairwise distinct.
C18_Names ==
  \A h \in Names :
    /\ \A k \in 1..Len(nodes[h].interfaces) :
         nodes[h].interfaces[k] = Iface(h, k - 1)
    /\ \A j, k \in 1..Len(nodes[h].interfaces) :
         j # k => nodes[h].interfaces[j] # nodes[h].interfaces[k]

\* C18, the lists: every step leaves each Node's interfaces list as it was
\* or extends it at the end.
C18_AppendOnly ==
  \A h \in Names :
    /\ Len(nodes'[h].interfaces) >= Len(nodes[h].interfaces)
    /\ SubSeq(nodes'[h].interfaces, 1, Len(nodes[h].interfaces))
         = nodes[h].interfaces

\* C18: for every sequence of Link and connect_node_to_bridge calls with
\* default interface names, the k-th interface of a Node is <host>-eth<k>,
\* the names of one Node are pairwise distinct, and the interfaces lists
\* are only ever appended to.
C18_DefaultNamesCountUp == []C18_Names /\ [][C18_AppendOnly]_vars

\* A Node got its second interface from connect_node_to_bridge after a
\* Link gave it and the other Node their first.
C18_Witness ==
  /\ last.op = "connect_node_to_bridge"
  /\ Len(nodes["h1"].interfaces) = 2
  /\ Len(nodes["h2"].interfaces) = 1

\* C20: a _start_mount_helper call makes at most 30 polls; it succeeds only
\* after it found the handshake file, and when it does not succeed it
\* raises RuntimeError, the anchor reference is still None and the process
\* it spawned is not running.
C20_StartEndsCleanly ==
  /\ start.polls <= PollLimit
  /\ (start.pc = "done" /\ start.result = "ok")
       => mount_ns_pid # None /\ start.polls >= 1
  /\ (start.pc = "done" /\ start.result # "ok")
       => /\ start.result = "RuntimeError"
          /\ mount_ns_pid = None
          /\ start.proc \notin alive

\* C21, the signals: while the interrupt handler of cmd_stream runs, the
\* signals sent to the command's process group are SIGINT alone, or SIGINT
\* followed by SIGTERM once the 2-second wait has run out; a call that
\* returns from the handler returns -2.
C21_SignalOrder ==
  /\ stream.pc = "int_wait" => stream.sent = <<SIGINT>>
  /\ stream.pc = "int_term_wait"
       => stream.sent = <<SIGINT, SIGTERM>> /\ stream.left = 0
  /\ (stream.pc = "returned" /\ stream.path = "interrupt")
       => /\ stream.ret = -2
          /\ stream.sent \in {<<SIGINT>>, <<SIGINT, SIGTERM>>}

\* C21, the escalation: SIGTERM is added after SIGINT only by a step taken
\* when the 2-second wait has run out and the command is still running.
C21_Escalation ==
  (stream.sent = <<SIGINT>> /\ stream'.sent = <<SIGINT, SIGTERM>>)
    => /\ stream.pc = "int_wait" /\ stream.left = 0
       /\ stream.proc = "running"

C22_NoSpawnWhileAnchorAlive ==
  (IsMountOverride /\ last.preAlive)
    => /\ last.starts = <<>>
       /\ IssuedAt({"Popen"}) = {}
       /\ ~last.detected
       /\ mount_ns_pid = last.prePid
       /\ last.result = "ok" => last.ret = last.prePid

\* C22, consecutive calls: a successful mount_override that directly follows
\* a successful mount_override (no kill, cleanup or other call in between)
\* returns the same pid, which is the anchor reference.
C22_SamePidOnConsecutiveCalls ==
  (IsMountOverride /\ last.result = "ok"
     /\ last'.op = "mount_override" /\ last'.result = "ok")
    => /\ last'.ret = last.ret
       /\ mount_ns_pid' = last.ret
       /\ alive' = alive

\* C22, the processes: at most one helper process of the Host is alive.
C22_AtMostOneLiveHelper == Cardinality(alive) <= 1

\* C22, the returned pid: a successful mount_override returns the anchor
\* reference, and the process it names is alive.
C22_SuccessReturnsLiveAnchor ==
  (IsMountOverride /\ last.result = "ok")
    => /\ last.ret = mount_ns_pid
       /\ mount_ns_pid \in alive

\* C22: mount_override never spawns a helper while the Host's anchor is
\* alive: successful calls on a live anchor return the same pid, equal to
\* the anchor reference, and at most one live anchor process exists per Host
\* at any time.
C22_OneAnchorPerHost ==
  /\ C22_NoSpawnWhileAnchorAlive
  /\ C22_SuccessReturnsLiveAnchor
  /\ C22_AtMostOneLiveHelper

\* C23: whenever a _start_mount_helper call has succeeded, the anchor
\* reference is the pid of the helper that call spawned and the pid file
\* does not exist, for every interleaving of the caller's polls with the
\* helper's creation and write of the file, also when the start follows an
\* earlier failed or timed-out start of the same Node.
C23_SuccessRecordsOwnHelper ==
  (start.pc = "done" /\ start.result = "ok")
    => /\ mount_ns_pid = start.proc
       /\ pidfile = NoFile

============================================================================
